---- MODULE Spec2Model ----
(***************************************************************************)
(* A model of the fraction drill program frac.py: the Fraction value with  *)
(* its mixed-number rendering, the parse of an answer line, and the        *)
(* prompt / answer / feedback loop of main().                              *)
(*                                                                         *)
(* Texts are sequences of one-character strings.  A rational is a record   *)
(* [num, den] in lowest terms with den > 0, as fractions.Fraction keeps    *)
(* it.                                                                     *)
(***************************************************************************)
EXTENDS Integers, Sequences, FiniteSets, TLC

(***************************************************************************)
(* Bounds of the model.                                                    *)
(***************************************************************************)
\* the configured denominator (args.denominator) of the checked sessions
Denominator == 4
\* prompts issued in one session of Spec
MaxPrompts == 4
\* prompts issued in one session of AnswerSpec
MaxAnswerPrompts == 2
\* range of the numerators and denominators of the round-trip check
MaxNum == 12
MaxDen == 6

(***************************************************************************)
(* Characters and decimal numerals (format's {0:d}, int(), \d).            *)
(***************************************************************************)
DigitChars == <<"0", "1", "2", "3", "4", "5", "6", "7", "8", "9">>

IsDigit(c) == \E i \in 1..10 : DigitChars[i] = c

DigitValue(c) == (CHOOSE i \in 1..10 : DigitChars[i] = c) - 1

IsSpace(c) == c = " "

RECURSIVE IntToStr(_)
IntToStr(n) ==
  IF n < 0 THEN <<"-">> \o IntToStr(-n)
  ELSE IF n < 10 THEN <<DigitChars[n + 1]>>
  ELSE IntToStr(n \div 10) \o <<DigitChars[(n % 10) + 1]>>

RECURSIVE StrToInt(_)
StrToInt(s) ==
  IF s = <<>> THEN 0
  ELSE 10 * StrToInt(SubSeq(s, 1, Len(s) - 1)) + DigitValue(s[Len(s)])

RECURSIVE Pow10(_)
Pow10(k) == IF k = 0 THEN 1 ELSE 10 * Pow10(k - 1)

(***************************************************************************)
(* fractions.Fraction: construction in lowest terms, arithmetic, order.    *)
(***************************************************************************)
Abs(n) == IF n < 0 THEN -n ELSE n

RECURSIVE Gcd(_, _)
Gcd(a, b) == IF b = 0 THEN Abs(a) ELSE Gcd(b, a % b)

\* Fraction(numerator, denominator) with denominator # 0
MakeFraction(n, d) ==
  LET g == Gcd(Abs(n), Abs(d))
      s == IF d < 0 THEN -1 ELSE 1
  IN  [num |-> s * (n \div g), den |-> s * (d \div g)]

FracAdd(a, b) == MakeFraction(a.num * b.den + b.num * a.den, a.den * b.den)

FracSub(a, b) == MakeFraction(a.num * b.den - b.num * a.den, a.den * b.den)

FracNeg(a) == [num |-> -a.num, den |-> a.den]

\* Fraction.__eq__: both are normalised, so the fields are compared
FracEq(a, b) == a.num = b.num /\ a.den = b.den

FracGeZero(a) == a.num >= 0

(***************************************************************************)
(* Operator                                                                *)
(***************************************************************************)
Operator == {"ADD", "SUB"}

OpApply(op, l, r) == IF op = "ADD" THEN FracAdd(l, r) ELSE FracSub(l, r)

OpDisplay(op) == IF op = "ADD" THEN "+" ELSE "-"

(***************************************************************************)
(* Rendering.  BaseStr is fractions.Fraction.__str__; FractionStr is the   *)
(* override of the subclass (the canonical mixed-number string).           *)
(***************************************************************************)
BaseStr(f) ==
  IF f.den = 1 THEN IntToStr(f.num)
  ELSE IntToStr(f.num) \o <<"/">> \o IntToStr(f.den)

\* __str__ without the test of line 131 for a remainder of zero
FractionStrNoWholeCase(f) ==
  IF f.num >= f.den
  THEN IntToStr(f.num \div f.den) \o <<"-">>
         \o BaseStr(MakeFraction(f.num % f.den, f.den))
  ELSE BaseStr(f)

\* Fraction.__str__
FractionStr(f) ==
  IF f.num >= f.den
  THEN LET whole     == f.num \div f.den
           numerator == f.num % f.den
       IN  IF numerator = 0
           THEN IntToStr(whole)
           ELSE IntToStr(whole) \o <<"-">>
                  \o BaseStr(MakeFraction(numerator, f.den))
  ELSE BaseStr(f)

\* str() of a value of class cls
StrOf(f, cls) == IF cls = "Fraction" THEN FractionStr(f) ELSE BaseStr(f)

(***************************************************************************)
(* Parsing an answer.                                                      *)
(***************************************************************************)
\* str.strip()
RECURSIVE LStrip(_)
LStrip(s) ==
  IF s # <<>> /\ IsSpace(Head(s)) THEN LStrip(Tail(s)) ELSE s

RECURSIVE RStrip(_)
RStrip(s) ==
  IF s # <<>> /\ IsSpace(s[Len(s)])
  THEN RStrip(SubSeq(s, 1, Len(s) - 1)) ELSE s

Strip(s) == RStrip(LStrip(s))

\* the length of the longest run of digits of s that starts at position i
RECURSIVE DigitRun(_, _)
DigitRun(s, i) ==
  IF i <= Len(s) /\ IsDigit(s[i]) THEN 1 + DigitRun(s, i + 1) ELSE 0

\* _WHOLE_FORMAT.match(raw): the groups, or "None" when there is no match
WholeFormatMatch(raw) ==
  LET w  == DigitRun(raw, 1)
      p1 == w + 1
      n  == DigitRun(raw, p1 + 1)
      p2 == p1 + n + 1
      d  == DigitRun(raw, p2 + 1)
  IN  IF /\ w > 0
         /\ p1 <= Len(raw) /\ raw[p1] = "-"
         /\ n > 0
         /\ p2 <= Len(raw) /\ raw[p2] = "/"
         /\ d > 0
      THEN [matched |-> TRUE,
            whole |-> SubSeq(raw, 1, w),
            num   |-> SubSeq(raw, p1 + 1, p1 + n),
            denom |-> SubSeq(raw, p2 + 1, p2 + d),
            end   |-> p2 + d]
      ELSE [matched |-> FALSE]

ValueError == [kind |-> "ValueError"]

ZeroDivisionError == [kind |-> "ZeroDivisionError"]

Parsed(f) == [kind |-> "ok", val |-> f]

\* Fraction(n, d) including its failure
NewFraction(n, d) ==
  IF d = 0 THEN ZeroDivisionError ELSE Parsed(MakeFraction(n, d))

\* Fraction(raw) of a text: sign, digits, then "/digits" or ".digits"
FractionLiteral(raw) ==
  LET s    == Strip(raw)
      sign == IF s # <<>> /\ s[1] \in {"-", "+"} THEN 1 ELSE 0
      neg  == sign = 1 /\ s[1] = "-"
      n    == DigitRun(s, sign + 1)
      p    == sign + n + 1
      m    == DigitRun(s, p + 1)
      mag  == StrToInt(SubSeq(s, sign + 1, sign + n))
      sg   == IF neg THEN -1 ELSE 1
  IN  IF n > 0 /\ p > Len(s)
      THEN NewFraction(sg * mag, 1)
      ELSE IF n > 0 /\ s[p] = "/" /\ m > 0 /\ p + m = Len(s)
      THEN NewFraction(sg * mag, StrToInt(SubSeq(s, p + 1, p + m)))
      ELSE IF p <= Len(s) /\ s[p] = "." /\ (n > 0 \/ m > 0) /\ p + m = Len(s)
      THEN NewFraction(sg * (mag * Pow10(m) + StrToInt(SubSeq(s, p + 1, p + m))),
                       Pow10(m))
      ELSE ValueError

\* ParseAnswer with the whole part not scaled by the denominator
ParseAnswerUnscaled(raw) ==
  LET m == WholeFormatMatch(raw)
  IN  IF m.matched
      THEN NewFraction(StrToInt(m.whole) + StrToInt(m.num), StrToInt(m.denom))
      ELSE FractionLiteral(raw)

\* lines 297-305 of main: the value of got, or the exception raised
ParseAnswer(raw) ==
  LET m == WholeFormatMatch(raw)
  IN  IF m.matched
      THEN LET whole == StrToInt(m.whole)
               num   == StrToInt(m.num)
               denom == StrToInt(m.denom)
           IN  NewFraction((whole * denom) + num, denom)
      ELSE FractionLiteral(raw)

(***************************************************************************)
(* get_random_fraction and Guess                                           *)
(***************************************************************************)
\* get_random_fraction drawing the numerator from 0..denominator
RandomFractionsInclusive(denominator) ==
  {MakeFraction(k, denominator) : k \in 0..denominator}

\* the values get_random_fraction(denominator) can return
RandomFractions(denominator) ==
  {MakeFraction(k, denominator) : k \in 1..(denominator - 1)}

\* Guess.reset without the exchange of the operands
ResetNoSwap(left, right, op) ==
  LET want == OpApply(op, left, right)
  IN  IF FracGeZero(want)
      THEN [left |-> left, right |-> right, want |-> want,
            want_cls |-> "Fraction", op |-> op, n |-> 0]
      ELSE [left |-> left, right |-> right, want |-> FracNeg(want),
            want_cls |-> "fractions.Fraction", op |-> op, n |-> 0]

\* Guess.reset: the fields of the guess after reset(left, right, op).  The
\* sum or difference of two Fractions, and the negation of one, are of the
\* base class fractions.Fraction; line 257 wraps the result in the subclass,
\* line 263 does not.
Reset(left, right, op) ==
  LET want == OpApply(op, left, right)
  IN  IF FracGeZero(want)
      THEN [left |-> left, right |-> right, want |-> want,
            want_cls |-> "Fraction", op |-> op, n |-> 0]
      ELSE [left |-> right, right |-> left, want |-> FracNeg(want),
            want_cls |-> "fractions.Fraction", op |-> op, n |-> 0]

\* Guess.__init__
NewGuess == Reset(MakeFraction(0, 1), MakeFraction(0, 1), "ADD")

(***************************************************************************)
(* The lines typed at the prompt in the checked sessions.                  *)
(***************************************************************************)
Operands == RandomFractions(Denominator)

Wants == {Reset(l, r, op).want : l \in Operands, r \in Operands, op \in Operator}

CanonTexts == {FractionStr(w) : w \in Wants}

UnreducedTexts ==
  {IntToStr(k * w.num) \o <<"/">> \o IntToStr(k * w.den) : w \in Wants, k \in 1..2}

MixedTexts ==
  {IntToStr(a) \o <<"-">> \o IntToStr(b) \o <<"/">> \o IntToStr(c) :
     a \in 0..1, b \in 0..2, c \in {0, 2, Denominator}}

OtherTexts ==
  { <<"0", ".", "5">>, <<"1", ".", "2", "5">>, <<".", "5">>, <<"1", ".">>,
    <<"-", "1", "/", "2">>, <<"+", "1", "/", "2">>, <<"1", "/", "0">>,
    <<>>, <<"a">>, <<"1", "/">>, <<"/", "2">>, <<"1", "-", "1">>,
    <<"1", " ", "/", "2">>, <<"1", "/", "2", "/", "4">>, <<".">>, <<"-">> }

Padded(t) == {<<" ">> \o t, t \o <<" ">>, <<" ">> \o t \o <<" ">>}

\* the lines of AnswerSpec
Lines ==
  LET plain == CanonTexts \cup UnreducedTexts \cup MixedTexts \cup OtherTexts
  IN  plain
        \cup UNION {Padded(t) : t \in CanonTexts \cup {<<"a">>, <<>>}}
        \cup {t \o <<"a">> : t \in CanonTexts}
        \cup {t \o <<"-", "2">> : t \in CanonTexts}

\* the lines of Spec: every canonical answer, and one line of each other kind
SessionLines ==
  CanonTexts \cup
  { <<"2", "/", "4">>, <<" ", "1", "/", "2", " ">>, <<"1", "-", "1", "/", "4", "a">>,
    <<"a">>, <<"1", "/", "0">> }

(***************************************************************************)
(* The session: main()                                                     *)
(***************************************************************************)
VARIABLES
  args,            \* the flags: canonical, estimate, operators
  guess,           \* the Guess: left, right, want, want_cls, op, n
  drawn,           \* the arguments of the last guess.reset(left, right, op)
  repeat, first, interrupts, correct, incorrect, skipped,
  pc,              \* "top": at the head of the loop; "prompt": blocked in
                   \* input(); "summary": the loop was left; "exited": main
                   \* returned; "crashed": an exception left main
  line,            \* the line input() returned in this pass of the loop,
                   \* <<>> while input() blocks
  branch,          \* the branch of the test of lines 306-307 this pass
                   \* entered: "correct", "incorrect", or "none"
  outcome,         \* how this pass ended, "none" while input() blocks
  hint,            \* the message of this pass carried "Simplify your answer."
  wanted,          \* the text of the "Wanted ...!" message of this pass
  prompts,         \* prompts issued so far
  generated,       \* history: calls of guess.reset made by the loop
  since_parsed,    \* history: interrupts since the last answer that parsed
  since_line,      \* history: interrupts since the last line of input
  correct_percent, \* the quotient the local correct_percent holds
  reported,        \* the percentage the summary printed, in hundredths,
                   \* -1 before that
  exit_code,       \* the value main returned, -1 before that
  trip             \* the round trip of one value: see RoundTrip

vars == <<args, guess, drawn, repeat, first, interrupts, correct, incorrect,
          skipped, pc, line, branch, outcome, hint, wanted, prompts,
          generated, since_parsed, since_line, correct_percent, reported,
          exit_code, trip>>

\* Guess.prompt without the strip()
PromptNoStrip(l) == l

\* Guess.prompt: what it returns when input() returns the line l
PromptReturn(l) == Strip(l)

\* the local raw of this pass
raw == PromptReturn(line)

NoTrip == [stage |-> "none", n |-> 0, d |-> 1, value |-> [num |-> 0, den |-> 1],
           text |-> <<>>, back |-> [kind |-> "none"]]

Zero == MakeFraction(0, 1)

\* main() up to line 286, under the flags a
Start(a) ==
  /\ args = a
  /\ guess = NewGuess
  /\ drawn = [left |-> Zero, right |-> Zero, op |-> "ADD"]
  /\ repeat = FALSE
  /\ first = TRUE
  /\ interrupts = 0
  /\ correct = 0
  /\ incorrect = 0
  /\ skipped = 0
  /\ line = <<>>
  /\ branch = "none"
  /\ outcome = "none"
  /\ hint = FALSE
  /\ wanted = <<>>
  /\ prompts = 0
  /\ generated = 0
  /\ since_parsed = 0
  /\ since_line = 0
  /\ correct_percent = Zero
  /\ reported = -1
  /\ exit_code = -1

\* the flags of the checked sessions.  With the operators ADD and SUB both
\* given, random.choice can pick either at every Problem, so the sessions
\* of -o ADD and of -o SUB are among these.
Flags == [canonical : BOOLEAN, estimate : BOOLEAN, operators : {Operator}]

Init ==
  /\ \E a \in Flags : Start(a)
  /\ pc = "top"
  /\ trip = NoTrip

\* a new Problem at every pass
AlwaysFresh == TRUE

\* the test of line 289
FreshProblem == ~repeat \/ first

\* lines 289-295: a new Problem unless the last one is repeated, then
\* guess.prompt() up to the blocking input()
LoopTop(max) ==
  /\ pc = "top"
  /\ prompts < max
  /\ IF FreshProblem
     THEN \E l \in RandomFractions(Denominator),
             r \in RandomFractions(Denominator),
             op \in args.operators :
            /\ guess' = [Reset(l, r, op) EXCEPT !.n = 1]
            /\ drawn' = [left |-> l, right |-> r, op |-> op]
            /\ generated' = generated + 1
     ELSE /\ guess' = [guess EXCEPT !.n = @ + 1]
          /\ drawn' = drawn
          /\ generated' = generated
  /\ first' = FALSE
  /\ prompts' = prompts + 1
  /\ pc' = "prompt"
  /\ line' = <<>>
  /\ branch' = "none"
  /\ outcome' = "none"
  /\ hint' = FALSE
  /\ wanted' = <<>>
  /\ UNCHANGED <<args, repeat, interrupts, correct, incorrect, skipped,
                 since_parsed, since_line, correct_percent, reported,
                 exit_code, trip>>

\* the test of lines 306-307 with the value compared in both modes
JudgedByValue(canonical, text, got, g) == FracEq(got, g.want)

\* the test of lines 306-307
JudgedCorrect(canonical, text, got, g) ==
  \/ canonical /\ text = StrOf(g.want, g.want_cls)
  \/ ~canonical /\ FracEq(got, g.want)

\* the hint given with every failure of canonical mode
HintAlways(canonical, got, g) == canonical

\* line 317
SimplifyHint(canonical, got, g) == canonical /\ FracEq(got, g.want)

\* guess.want.estimate exists in the subclass only
HasEstimate(g) == g.want_cls = "Fraction"

\* the ValueError counted as a wrong answer
OnValueErrorCounted ==
  /\ repeat' = TRUE
  /\ branch' = "none"
  /\ outcome' = "malformed"
  /\ hint' = FALSE
  /\ pc' = "top"
  /\ incorrect' = incorrect + 1
  /\ UNCHANGED <<correct, since_parsed>>

\* the handler of the ValueError without the assignment of line 323
OnValueErrorKeepsRepeat ==
  /\ branch' = "none"
  /\ outcome' = "malformed"
  /\ hint' = FALSE
  /\ pc' = "top"
  /\ UNCHANGED <<repeat, correct, incorrect, since_parsed>>

\* lines 322-324: the ValueError of line 305 is caught
OnValueError ==
  /\ repeat' = TRUE
  /\ branch' = "none"
  /\ outcome' = "malformed"
  /\ hint' = FALSE
  /\ pc' = "top"
  /\ UNCHANGED <<correct, incorrect, since_parsed>>

\* the ZeroDivisionError of line 303 or 305 is caught by no handler
OnZeroDivisionError ==
  /\ branch' = "none"
  /\ outcome' = "ZeroDivisionError"
  /\ hint' = FALSE
  /\ pc' = "crashed"
  /\ UNCHANGED <<repeat, correct, incorrect, since_parsed>>

\* lines 308-313; building the message fails when the estimate is asked of
\* a want that has none, and no handler catches the AttributeError
OnCorrect ==
  /\ branch' = "correct"
  /\ hint' = FALSE
  /\ since_parsed' = 0
  /\ IF args.estimate /\ ~HasEstimate(guess)
     THEN /\ outcome' = "AttributeError"
          /\ pc' = "crashed"
          /\ UNCHANGED <<repeat, correct>>
     ELSE /\ outcome' = "correct"
          /\ correct' = correct + 1
          /\ repeat' = FALSE
          /\ pc' = "top"
  /\ UNCHANGED incorrect

\* lines 315-320
OnIncorrect(got) ==
  /\ branch' = "incorrect"
  /\ outcome' = "incorrect"
  /\ hint' = SimplifyHint(args.canonical, got, guess)
  /\ since_parsed' = 0
  /\ incorrect' = incorrect + 1
  /\ repeat' = TRUE
  /\ pc' = "top"
  /\ UNCHANGED correct

\* the counter of interrupts left as it is when a line arrives
InterruptsKept == interrupts

\* line 296
InterruptsAfterInput == 0

\* lines 295-324: input() returns the line l
Answer(l) ==
  /\ pc = "prompt"
  /\ line' = l
  /\ interrupts' = InterruptsAfterInput
  /\ since_line' = 0
  /\ LET text == PromptReturn(l)
         p    == ParseAnswer(text)
     IN  CASE p.kind = "ValueError" -> OnValueError
           [] p.kind = "ZeroDivisionError" -> OnZeroDivisionError
           [] p.kind = "ok" /\ JudgedCorrect(args.canonical, text, p.val, guess) ->
                OnCorrect
           [] p.kind = "ok" /\ ~JudgedCorrect(args.canonical, text, p.val, guess) ->
                OnIncorrect(p.val)
  /\ UNCHANGED <<args, guess, drawn, first, skipped, wanted, prompts,
                 generated, correct_percent, reported, exit_code, trip>>

\* the session left at the fourth interrupt
TooManyInterruptsLate(n) == n > 3

\* the test of line 331
TooManyInterrupts(n) == n > 2

\* the handler of the KeyboardInterrupt without the assignment of line 330
InterruptKeepsRepeat ==
  /\ pc = "prompt"
  /\ wanted' = StrOf(guess.want, guess.want_cls)
  /\ interrupts' = interrupts + 1
  /\ skipped' = skipped + 1
  /\ branch' = "none"
  /\ outcome' = "interrupt"
  /\ hint' = FALSE
  /\ since_parsed' = since_parsed + 1
  /\ since_line' = since_line + 1
  /\ pc' = IF TooManyInterrupts(interrupts + 1) THEN "summary" ELSE "top"
  /\ UNCHANGED <<args, guess, drawn, first, correct, incorrect, line, prompts,
                 generated, correct_percent, reported, exit_code, trip,
                 repeat>>

\* lines 325-333: KeyboardInterrupt raised in input()
Interrupt ==
  /\ pc = "prompt"
  /\ wanted' = StrOf(guess.want, guess.want_cls)
  /\ interrupts' = interrupts + 1
  /\ skipped' = skipped + 1
  /\ repeat' = FALSE
  /\ branch' = "none"
  /\ outcome' = "interrupt"
  /\ hint' = FALSE
  /\ since_parsed' = since_parsed + 1
  /\ since_line' = since_line + 1
  /\ pc' = IF TooManyInterrupts(interrupts + 1) THEN "summary" ELSE "top"
  /\ UNCHANGED <<args, guess, drawn, first, correct, incorrect, line, prompts,
                 generated, correct_percent, reported, exit_code, trip>>

\* lines 334-337: EOFError raised in input()
EndOfInput ==
  /\ pc = "prompt"
  /\ branch' = "none"
  /\ outcome' = "eof"
  /\ hint' = FALSE
  /\ pc' = "summary"
  /\ UNCHANGED <<args, guess, drawn, repeat, first, interrupts, correct,
                 incorrect, skipped, line, wanted, prompts, generated,
                 since_parsed, since_line, correct_percent, reported,
                 exit_code, trip>>

\* the format 0.2f of line 341 with the digits after the second cut off
TwoDecimalsTruncated(q) == (100 * q.num) \div q.den

\* the format 0.2f of line 341 of a quotient q >= 0: the nearest number of
\* hundredths (no quotient of counters this small lies halfway between two)
TwoDecimals(q) == (200 * q.num + q.den) \div (2 * q.den)

\* lines 338-344
Summary ==
  /\ pc = "summary"
  /\ correct_percent' =
       IF correct + incorrect > 0
       THEN MakeFraction(100 * correct, correct + incorrect)
       ELSE Zero
  /\ reported' = TwoDecimals(correct_percent')
  /\ exit_code' = 0
  /\ pc' = "exited"
  /\ UNCHANGED <<args, guess, drawn, repeat, first, interrupts, correct,
                 incorrect, skipped, line, branch, outcome, hint, wanted,
                 prompts, generated, since_parsed, since_line, trip>>

\* sessions of up to MaxPrompts prompts, answered from SessionLines
Next ==
  \/ LoopTop(MaxPrompts)
  \/ \E l \in SessionLines : Answer(l)
  \/ Interrupt
  \/ EndOfInput
  \/ Summary

Spec == Init /\ [][Next]_vars

\* sessions of up to MaxAnswerPrompts prompts, answered from Lines
AnswerNext ==
  \/ LoopTop(MaxAnswerPrompts)
  \/ \E l \in Lines : Answer(l)
  \/ Interrupt
  \/ EndOfInput
  \/ Summary

AnswerSpec == Init /\ [][AnswerNext]_vars

(***************************************************************************)
(* The round trip of a value: Fraction(n, d) is rendered by __str__ and    *)
(* the text is read back as an answer is (lines 269 and 297-305).          *)
(***************************************************************************)
RoundTripInit ==
  /\ Start([canonical |-> FALSE, estimate |-> FALSE, operators |-> Operator])
  /\ pc = "none"
  /\ \E n \in (-MaxNum)..MaxNum, d \in 1..MaxDen :
       trip = [NoTrip EXCEPT !.stage = "made", !.n = n, !.d = d,
                             !.value = MakeFraction(n, d)]

Format ==
  /\ trip.stage = "made"
  /\ trip' = [trip EXCEPT !.stage = "formatted", !.text = FractionStr(trip.value)]
  /\ UNCHANGED <<args, guess, drawn, repeat, first, interrupts, correct,
                 incorrect, skipped, pc, line, branch, outcome, hint, wanted,
                 prompts, generated, since_parsed, since_line,
                 correct_percent, reported, exit_code>>

Parse ==
  /\ trip.stage = "formatted"
  /\ trip' = [trip EXCEPT !.stage = "parsed",
                          !.back = ParseAnswer(PromptReturn(trip.text))]
  /\ UNCHANGED <<args, guess, drawn, repeat, first, interrupts, correct,
                 incorrect, skipped, pc, line, branch, outcome, hint, wanted,
                 prompts, generated, since_parsed, since_line,
                 correct_percent, reported, exit_code>>

RoundTripNext == Format \/ Parse

RoundTripSpec == RoundTripInit /\ [][RoundTripNext]_vars

(***************************************************************************)
(* Observations of a session                                               *)
(***************************************************************************)
AwaitingAnswer == pc \in {"top", "prompt"}

Terminated == pc \in {"summary", "exited"}

Crashed == pc = "crashed"

\* this pass of the loop received a line of input
Answered ==
  outcome \in {"correct", "incorrect", "malformed", "ZeroDivisionError",
               "AttributeError"}

\* a/b = c/d as exact rationals, by cross multiplication
SameValue(a, c) == a.num * c.den = c.num * a.den

\* the Problem of a guess
Problem(g) == <<g.left, g.right, g.op, g.want>>

Half == [num |-> 1, den |-> 2]

\* the spec's mixed-number form ^(\d+)-(\d+)/(\d+)$: the whole text matches
FullMixedForm(t) ==
  LET m == WholeFormatMatch(t) IN m.matched /\ m.end = Len(t)

(***************************************************************************)
(* Claims                                                                  *)
(***************************************************************************)

\* C1 (AnswerSpec): an answer that parses is entered in the correct branch
\* exactly when, in non-canonical mode, its value equals want as an exact
\* rational and, in canonical mode, the text raw is the canonical string of
\* want.
C1_JudgedByModeRule ==
  (Answered /\ ParseAnswer(raw).kind = "ok") =>
     /\ branch \in {"correct", "incorrect"}
     /\ (branch = "correct") <=>
          IF args.canonical
          THEN raw = FractionStr(guess.want)
          ELSE SameValue(ParseAnswer(raw).val, guess.want)

\* C1 witness: canonical mode, want 1/2, the answer 2/4 was judged incorrect
C1_Witness ==
  /\ args.canonical
  /\ line = <<"2", "/", "4">>
  /\ guess.want = Half
  /\ branch = "incorrect"

\* C2 as claimed (Spec): the third interrupt since the last answer that
\* parsed ends the session, and an interrupt before the third does not.
C2_Original ==
  outcome = "interrupt" => (Terminated <=> since_parsed >= 3)

\* C2 as amended (Spec): the third interrupt since the last line of input,
\* parsed or malformed, ends the session, and an interrupt before the third
\* does not.
C2_Escalation ==
  /\ since_line <= 3
  /\ outcome = "interrupt" => (Terminated <=> since_line = 3)

\* C2 witness: the session was left at the third interrupt in a row
C2_Witness == pc = "summary" /\ outcome = "interrupt" /\ since_line = 3

\* C3 (Spec): a line that fails to parse changes none of correct, incorrect,
\* skipped, leaves the session awaiting an answer, and the next prompt asks
\* the same Problem.
C3_MalformedIsDiscarded ==
  [][ /\ (pc = "prompt" /\ Answered' /\ ParseAnswer(raw').kind = "ValueError") =>
           /\ outcome' = "malformed"
           /\ correct' = correct /\ incorrect' = incorrect /\ skipped' = skipped
           /\ AwaitingAnswer'
           /\ Problem(guess') = Problem(guess)
      /\ (pc = "top" /\ outcome = "malformed" /\ pc' = "prompt") =>
           /\ Problem(guess') = Problem(guess)
           /\ correct' = correct /\ incorrect' = incorrect /\ skipped' = skipped
    ]_vars

\* C3 witness: after one correct answer, a Problem is prompted a second time
\* with no wrong answer counted: its first answer was malformed
C3_Witness ==
  pc = "prompt" /\ guess.n = 2 /\ incorrect = 0 /\ correct = 1

\* C4 (Spec): the prompt that follows the start of the session, a correct
\* answer or an interrupt asks a Problem just generated (asked for the first
\* time); the prompt that follows any other pass asks the Problem of that
\* pass once more.
C4_FreshAfterCorrectOrSkip ==
  [][ (pc = "top" /\ pc' = "prompt") =>
        IF outcome \in {"none", "correct", "interrupt"}
        THEN guess'.n = 1
        ELSE guess'.n = guess.n + 1 /\ Problem(guess') = Problem(guess)
    ]_vars

\* C4 witness: a Problem asked for the third time after two wrong answers
C4_Witness ==
  pc = "prompt" /\ guess.n = 3 /\ incorrect = 2 /\ prompts = 3

\* C5 (Spec): want is not negative, the operator applied to left and right
\* in this order gives want, and when the result of the drawn operands is
\* negative left and right are the drawn operands exchanged.
C5_SignNormalized ==
  /\ guess.want.num >= 0 /\ guess.want.den > 0
  /\ SameValue(OpApply(guess.op, guess.left, guess.right), guess.want)
  /\ guess.op = drawn.op
  /\ OpApply(drawn.op, drawn.left, drawn.right).num < 0 =>
       guess.left = drawn.right /\ guess.right = drawn.left

\* C5 witness: a Subtract Problem whose drawn operands were exchanged
C5_Witness ==
  /\ pc = "prompt"
  /\ guess.op = "SUB"
  /\ OpApply(drawn.op, drawn.left, drawn.right).num < 0
  /\ guess.left = drawn.right
  /\ guess.left # drawn.left

\* C6 as claimed (AnswerSpec): every line of input ends as a correct, an
\* incorrect or a malformed answer and the session goes on awaiting an
\* answer.  (The AttributeError of the estimate is left to claim C14.)
C6_EveryLineIsHandled ==
  (Answered /\ outcome # "AttributeError") =>
     /\ outcome \in {"correct", "incorrect", "malformed"}
     /\ AwaitingAnswer

\* C7 as claimed (AnswerSpec): a text is read as a mixed number only when the
\* whole of it has the form digits-digits/digits, and a text that is neither
\* of that form nor a literal is discarded as malformed: it is not judged
\* and changes no counter.
C7_OnlyWholeTextIsMixed ==
  [][ (pc = "prompt" /\ Answered') =>
        /\ WholeFormatMatch(raw').matched => FullMixedForm(raw')
        /\ (~FullMixedForm(raw') /\ FractionLiteral(raw').kind = "ValueError") =>
             /\ outcome' = "malformed"
             /\ branch' = "none"
             /\ correct' = correct /\ incorrect' = incorrect
             /\ skipped' = skipped
    ]_vars

\* C8 as claimed (AnswerSpec): in canonical mode a line that is not
\* character for character the canonical string of want, surrounding
\* whitespace included, is not judged correct.
C8_Original ==
  (args.canonical /\ Answered /\ line # FractionStr(guess.want)) =>
     branch # "correct"

\* C8 as amended (AnswerSpec): in canonical mode the comparison is on the
\* line with its leading and trailing whitespace removed: a line is judged
\* correct exactly when the stripped line is character for character the
\* canonical string of want.
C8_StrippedTextCompared ==
  (args.canonical /\ Answered) =>
     /\ Strip(line) # FractionStr(guess.want) => branch # "correct"
     /\ Strip(line) = FractionStr(guess.want) => branch = "correct"

\* C8 witness: canonical mode, the canonical string typed with whitespace
\* around it was judged correct
C8_Witness ==
  /\ args.canonical
  /\ line # Strip(line)
  /\ Strip(line) = FractionStr(guess.want)
  /\ branch = "correct"

\* C9 (AnswerSpec): in canonical mode an answer that parses to the value of
\* want in a text other than the canonical string is judged incorrect with
\* the hint, adds one to incorrect and has the same Problem asked again; no
\* other event gives the hint.
C9_SimplifyHint ==
  [][ /\ (pc = "prompt" /\ pc' # "prompt") =>
           IF /\ Answered'
              /\ args.canonical
              /\ ParseAnswer(raw').kind = "ok"
              /\ SameValue(ParseAnswer(raw').val, guess.want)
              /\ raw' # FractionStr(guess.want)
           THEN /\ hint'
                /\ branch' = "incorrect"
                /\ incorrect' = incorrect + 1
                /\ correct' = correct
                /\ AwaitingAnswer'
                /\ Problem(guess') = Problem(guess)
           ELSE ~hint'
      /\ (pc = "top" /\ hint /\ pc' = "prompt") =>
           Problem(guess') = Problem(guess) /\ guess'.n = guess.n + 1
      /\ (pc # "prompt") => (hint' => hint)
    ]_vars

\* C9 witness: canonical mode, want 1/2, the answer 2/4 got the hint
C9_Witness ==
  /\ hint
  /\ line = <<"2", "/", "4">>
  /\ guess.want = Half
  /\ incorrect = 1

\* C10 (RoundTripSpec): the canonical string of Fraction(n, d), read back as
\* an answer is, parses, and to a value equal to n/d.
C10_RoundTrip ==
  trip.stage = "parsed" =>
     /\ trip.back.kind = "ok"
     /\ trip.back.val.num * trip.d = trip.n * trip.back.val.den

\* C10 witness: 10/4 went through "2-1/2"
C10_Witness ==
  /\ trip.stage = "parsed"
  /\ trip.n = 10 /\ trip.d = 4
  /\ trip.text = <<"2", "-", "1", "/", "2">>

\* C11 (RoundTripSpec): the string of a non-negative value whose lowest terms
\* are n/d is "0" when n = 0, "n/d" when 0 < n < d, the integer n/d alone
\* when d divides n (never "w-0/1"), and otherwise "w-r/d" with w the floor
\* of n/d and r = n mod d.
C11_FormatCases ==
  (trip.stage \in {"formatted", "parsed"} /\ trip.n >= 0) =>
     LET n == trip.value.num
         d == trip.value.den
         w == n \div d
         r == n % d
     IN  /\ d > 0 /\ Gcd(n, d) = 1 /\ n * trip.d = trip.n * d
         /\ trip.text =
              IF n = 0 THEN <<"0">>
              ELSE IF n < d THEN IntToStr(n) \o <<"/">> \o IntToStr(d)
              ELSE IF r = 0 THEN IntToStr(w)
              ELSE IntToStr(w) \o <<"-">> \o IntToStr(r) \o <<"/">>
                     \o IntToStr(d)

\* C11 witness: 8/4 was rendered "2"
C11_Witness ==
  /\ trip.stage = "formatted"
  /\ trip.n = 8 /\ trip.d = 4
  /\ trip.text = <<"2">>

\* C12 (Spec): the session stops awaiting answers only by going to Terminated,
\* and only on an end of input or on the third interrupt in a row, never on
\* an answer; an end of input at a prompt terminates in that step and leaves
\* correct, incorrect and skipped as they were; main returns 0 on every path
\* that ends the session.
C12_EndsOnlyByEofOrThirdInterrupt ==
  [][ /\ (AwaitingAnswer /\ ~AwaitingAnswer') =>
           /\ Terminated'
           /\ ~Answered'
           /\ \/ outcome' = "eof"
              \/ outcome' = "interrupt" /\ since_line' = 3
      /\ (pc = "prompt" /\ outcome' = "eof") =>
           /\ Terminated'
           /\ correct' = correct
           /\ incorrect' = incorrect
           /\ skipped' = skipped
      /\ (pc' = "exited") => exit_code' = 0
    ]_vars

\* C13 as stated (Spec): once the summary is printed, the reported percentage
\* p satisfies p * (correct + incorrect) = 100 * correct when there were
\* attempts, and is 0 when there were none.  reported counts hundredths.
C13_Original ==
  pc = "exited" =>
     IF correct + incorrect > 0
     THEN reported * (correct + incorrect) = 100 * (100 * correct)
     ELSE reported = 0

\* C13 amended (Spec): once the summary is printed, the reported percentage is
\* 100 * correct / (correct + incorrect) rounded to the nearest hundredth
\* when there were attempts, and 0.00 when there were none; skipped takes no
\* part in it.
C13_ReportedPercentage ==
  pc = "exited" =>
     IF correct + incorrect > 0
     THEN 2 * Abs(reported * (correct + incorrect) - 100 * (100 * correct))
            <= correct + incorrect
     ELSE reported = 0

\* C13 witness: two correct answers and a wrong one were reported as 66.67
C13_Witness ==
  /\ pc = "exited"
  /\ correct = 2 /\ incorrect = 1
  /\ reported = 6667

\* C14 (Spec): whenever an answer is judged correct while show-estimate is
\* set, want has the estimate (also the want the exchange of the operands
\* stored), the success step completes, correct grows by one and the session
\* goes on to a fresh Problem.
C14_EstimateStepCompletes ==
  [][ (pc = "prompt" /\ args.estimate /\ branch' = "correct") =>
         /\ HasEstimate(guess)
         /\ outcome' = "correct"
         /\ correct' = correct + 1
         /\ pc' = "top"
         /\ ~repeat'
    ]_vars

\* C15 (Spec): an interrupt at the prompt adds exactly one to skipped and to
\* the counter of interrupts in a row, clears repeat, reports the want of the
\* Problem that was being prompted, and leaves correct and incorrect alone.
C15_InterruptFrame ==
  [][ (pc = "prompt" /\ outcome' = "interrupt") =>
         /\ skipped' = skipped + 1
         /\ interrupts' = interrupts + 1
         /\ repeat' = FALSE
         /\ ParseAnswer(wanted').kind = "ok"
         /\ SameValue(ParseAnswer(wanted').val, guess.want)
         /\ Problem(guess') = Problem(guess)
         /\ correct' = correct
         /\ incorrect' = incorrect
    ]_vars

\* C15 witness: the Problem with want 1/2 was answered wrongly, asked again
\* (repeat was set) and then interrupted
C15_Witness ==
  /\ outcome = "interrupt"
  /\ guess.n = 2 /\ incorrect = 1
  /\ guess.want = Half
  /\ wanted = <<"1", "/", "2">>
  /\ skipped = 1 /\ interrupts = 1
  /\ ~repeat

\* C16 (Spec): right after any line of input, be it correct, incorrect,
\* malformed or one that raises, the counter of interrupts in a row is 0; in
\* every reachable state it lies between 0 and 3, is at most skipped, and is
\* 3 only in Terminated.
C16_InterruptCounter ==
  /\ Answered => interrupts = 0
  /\ interrupts \in 0..3
  /\ interrupts <= skipped
  /\ interrupts = 3 => Terminated

\* C16 witness: two interrupts, then a malformed line put the counter back
\* to 0
C16_Witness ==
  /\ outcome = "malformed"
  /\ skipped = 2
  /\ since_parsed = 2
  /\ interrupts = 0

\* C17 (Spec): once the loop has generated a Problem, each operand drawn and
\* each operand shown is in lowest terms with a positive denominator that
\* divides the configured denominator, and lies strictly between 0 and 1;
\* want lies strictly between 0 and 2 for ADD, and is at least 0 and less
\* than 1 for SUB.
C17_OperandsAndWant ==
  generated >= 1 =>
     /\ \A f \in {guess.left, guess.right, drawn.left, drawn.right} :
           /\ f.den > 0
           /\ Gcd(f.num, f.den) = 1
           /\ Denominator % f.den = 0
           /\ 0 < f.num /\ f.num < f.den
     /\ guess.want.den > 0
     /\ Gcd(guess.want.num, guess.want.den) = 1
     /\ guess.op = "ADD" =>
           0 < guess.want.num /\ guess.want.num < 2 * guess.want.den
     /\ guess.op = "SUB" =>
           0 <= guess.want.num /\ guess.want.num < guess.want.den

\* C17 witness: 2/4 and 3/4 were drawn for a SUB Problem, exchanged and
\* shown as 3/4 - 1/2, with want 1/4
C17_Witness ==
  /\ pc = "prompt"
  /\ guess.op = "SUB"
  /\ drawn.left = Half
  /\ guess.left = [num |-> 3, den |-> 4]
  /\ guess.right = Half
  /\ guess.want = [num |-> 1, den |-> 4]

\* C18 as stated (Spec): after a malformed line repeat has the value it had
\* while the prompt was waiting for that line.
C18_Original ==
  [][ (pc = "prompt" /\ outcome' = "malformed") => repeat' = repeat ]_vars

\* C18 amended (Spec): after a malformed line repeat is set, whatever its
\* value while the prompt was waiting; counters and Problem stay as they were.
C18_MalformedSetsRepeat ==
  [][ (pc = "prompt" /\ outcome' = "malformed") =>
         /\ repeat' = TRUE
         /\ Problem(guess') = Problem(guess)
         /\ correct' = correct
         /\ incorrect' = incorrect
         /\ skipped' = skipped
    ]_vars

\* C18 witness: a correct answer cleared repeat, the first prompt of the next
\* Problem got a malformed line, and repeat is set
C18_Witness ==
  /\ outcome = "malformed"
  /\ correct = 1 /\ incorrect = 0 /\ skipped = 0
  /\ guess.n = 1
  /\ prompts = 2
  /\ repeat

\* C19 (Spec): at every prompt the number of Problems the loop has generated
\* is correct + skipped + 1; a step concludes at most one Problem, adding one
\* to correct or to skipped and never to both, and only at a prompt; correct,
\* incorrect and skipped never decrease.
C19_ConcludedAtMostOnce ==
  [][ /\ pc' = "prompt" => generated' = correct' + skipped' + 1
      /\ correct' >= correct
      /\ incorrect' >= incorrect
      /\ skipped' >= skipped
      /\ (correct' + skipped') - (correct + skipped) <= 1
      /\ (correct' # correct \/ skipped' # skipped) => pc = "prompt"
    ]_vars

\* C19 witness: the first Problem was answered correctly, the second one
\* twice wrongly, and it is prompted a third time
C19_Witness ==
  /\ pc = "prompt"
  /\ correct = 1 /\ incorrect = 2 /\ skipped = 0
  /\ generated = 2
  /\ guess.n = 3

\* C20 (AnswerSpec): for the Problem and the line of any answered prompt, a
\* line judged correct in canonical mode is judged correct by the test of
\* non-canonical mode too (the canonical string of want parses to a value
\* equal to want), a line not judged correct in non-canonical mode is not
\* judged correct by the test of canonical mode, and in both modes the
\* malformed lines are the lines whose parse raises ValueError.
C20_CanonicalIsStricter ==
  Answered =>
     LET p == ParseAnswer(raw)
     IN  /\ (args.canonical /\ branch = "correct") =>
               /\ p.kind = "ok"
               /\ JudgedCorrect(FALSE, raw, p.val, guess)
               /\ SameValue(p.val, guess.want)
         /\ (~args.canonical /\ branch # "correct" /\ p.kind = "ok") =>
               ~JudgedCorrect(TRUE, raw, p.val, guess)
         /\ (outcome = "malformed") <=> (p.kind = "ValueError")

\* C20 witness: canonical mode, want 5/4, the line "1-1/4" was judged correct
C20_Witness ==
  /\ args.canonical
  /\ branch = "correct"
  /\ guess.want = [num |-> 5, den |-> 4]
  /\ line = <<"1", "-", "1", "/", "4">>

====
